---- MODULE Spec2Model ----
(***************************************************************************)
(* Model of src/src/lib/base-api-client.ts: BaseApiClient.createEndpoint,  *)
(* the validated call it builds, the key generators and the query and      *)
(* mutation option adapters.  The file holds two classes: the first        *)
(* (lines 33-169) takes the payload positionally and validates it with     *)
(* dataSchema; the second (lines 224-399) takes an {input, variables}      *)
(* envelope.  `variant` says which class the client is an instance of.     *)
(*                                                                         *)
(* Collaborators outside the repository are modelled by their contract:    *)
(*   - zod: schema.parse(v) throws a ZodError unless the schema accepts v; *)
(*   - axios: a verb method returns a promise that settles with a response *)
(*     or rejects with an AxiosError, chosen by the environment;           *)
(*   - crypto.randomUUID(): returns a value it has not returned before     *)
(*     (version-4 UUIDs; uniqueness is the API's contract, not a fact of   *)
(*     this repository).                                                   *)
(***************************************************************************)
EXTENDS Naturals, Sequences, FiniteSets, TLC

VARIABLES variant, endpoints, inv, obs

vars == <<variant, endpoints, inv, obs>>

\* Number of endpoints a client builds in SpecBuild.
MaxEndpoints == 2

---------------------------------------------------------------------------
(* JavaScript values.  A primitive is its tag; the only objects that occur *)
(* as payloads are {input, variables} envelopes, whose two fields hold     *)
(* primitives.  {} is the envelope with both fields undefined.             *)

PrimTags == {"undefined", "null", "n0", "n1", "sEmpty", "sA", "bFalse"}

FalsyTags == {"undefined", "null", "n0", "sEmpty", "bFalse"}

Prim(tag) == [t |-> tag, input |-> "-", variables |-> "-"]

Obj(i, v) == [t |-> "object", input |-> i, variables |-> v]

Undefined == Prim("undefined")

EmptyObject == Obj("undefined", "undefined")

\* JavaScript truthiness, as the conditional operator tests it.
Truthy(v) == v.t \notin FalsyTags

\* a ?? b
Nullish(v) == v.t \in {"undefined", "null"}

---------------------------------------------------------------------------
(* zod schemas.  "none" is an undeclared (undefined) schema; "number" is   *)
(* z.number().                                                             *)

Schemas == {"none", "number"}

Accepts(schema, v) == schema = "number" /\ v.t \in {"n0", "n1"}

\* The response bodies the transport may deliver, and the output schema.
Bodies == {"bodyValid", "bodyInvalid"}

OutputAccepts(body) == body = "bodyValid"

AxiosErrors == {"AxiosError:network", "AxiosError:status"}

---------------------------------------------------------------------------
(* Descriptors: the argument of createEndpoint.  "HEAD" stands for a       *)
(* method outside the declared union, which only the type checker rules    *)
(* out.                                                                    *)

Methods == {"GET", "POST", "PUT", "PATCH", "DELETE"}

AnyMethod == Methods \cup {"HEAD"}

Descriptors(v) ==
  [method : AnyMethod, pathFn : BOOLEAN, hasOpts : BOOLEAN,
   inputSchema : Schemas,
   variablesSchema : IF v = 1 THEN {"none"} ELSE Schemas]

\* The descriptors SpecBuild builds endpoints from: keys and option objects
\* read neither the method, the path nor the option function.
BuildDescriptors(v) ==
  {d \in Descriptors(v) : d.method = "GET" /\ ~d.pathFn /\ ~d.hasOpts}

UUIDs == 1..MaxEndpoints

\* createEndpoint: the closure state of the built endpoint.
createEndpoint(d, u) == [desc |-> d, uuid |-> u]

---------------------------------------------------------------------------
(* The validated call.                                                     *)

CallTags == {"undefined", "n0", "sA"}

TagsFor(schema) == IF schema = "none" THEN {"undefined"} ELSE CallTags

\* The payloads the declared types of call, queryOptions and mutationFn
\* admit for a descriptor, widened by values its schemas reject.
CallPayloads(d) ==
  IF variant = 1
  THEN {Prim(t) : t \in TagsFor(d.inputSchema)}
  ELSE IF d.inputSchema = "none" /\ d.variablesSchema = "none"
       THEN {Undefined}
       ELSE {Obj(i, v) : i \in TagsFor(d.inputSchema), v \in TagsFor(d.variablesSchema)}

\* const data = (opts ?? {}); the first class uses its argument as it is.
payloadOf(opts) ==
  IF variant = 1 THEN opts
  ELSE IF Nullish(opts) THEN EmptyObject ELSE opts

ZodErrors == {"ZodError:input", "ZodError:variables", "ZodError:output"}

validateNoInput(d, data) ==
  IF variant = 2 /\ d.variablesSchema # "none" /\ ~Accepts(d.variablesSchema, Prim(data.variables))
  THEN "ZodError:variables"
  ELSE "none"

\* The two schema.parse calls that open call: the error thrown, or "none".
validate(d, data) ==
  IF variant = 1
  THEN IF d.inputSchema # "none" /\ ~Accepts(d.inputSchema, data)
       THEN "ZodError:input" ELSE "none"
  ELSE IF d.inputSchema # "none" /\ ~Accepts(d.inputSchema, Prim(data.input))
       THEN "ZodError:input"
       ELSE IF d.variablesSchema # "none" /\ ~Accepts(d.variablesSchema, Prim(data.variables))
            THEN "ZodError:variables"
            ELSE "none"

\* axiosOptionsFn?.(data): the caller's function puts the payload in the
\* config's data field.
resolveOptions(d, data) ==
  IF d.hasOpts THEN [defined |-> TRUE, data |-> data]
  ELSE [defined |-> FALSE, data |-> Undefined]

\* axiosOptions?.data
configData(cfg) == IF cfg.defined THEN cfg.data ELSE Undefined

\* typeof path === "function" ? path(data) : path
resolveUrl(d, data) ==
  IF d.pathFn THEN [path |-> "fn", of |-> data]
  ELSE [path |-> "literal", of |-> Undefined]

Request(verb, args) == [verb |-> verb, args |-> args]

dispatchBodyInOptions(method, url, cfg) ==
  IF method = "GET" THEN <<Request("get", <<url, cfg>>)>>
  ELSE IF method = "POST" THEN <<Request("post", <<url, cfg>>)>>
  ELSE IF method = "PUT" THEN <<Request("put", <<url, cfg>>)>>
  ELSE IF method = "PATCH" THEN <<Request("patch", <<url, cfg>>)>>
  ELSE IF method = "DELETE" THEN <<Request("delete", <<url, cfg>>)>>
  ELSE <<>>

dispatchDefaultGet(method, url, cfg) ==
  IF method = "POST" THEN <<Request("post", <<url, configData(cfg), cfg>>)>>
  ELSE IF method = "PUT" THEN <<Request("put", <<url, configData(cfg), cfg>>)>>
  ELSE IF method = "PATCH" THEN <<Request("patch", <<url, configData(cfg), cfg>>)>>
  ELSE IF method = "DELETE" THEN <<Request("delete", <<url, cfg>>)>>
  ELSE <<Request("get", <<url, cfg>>)>>

\* The chain of method tests: the transport calls made, none when no test
\* matches and call falls through to its throw.
dispatch(method, url, cfg) ==
  IF method = "GET" THEN <<Request("get", <<url, cfg>>)>>
  ELSE IF method = "POST" THEN <<Request("post", <<url, configData(cfg), cfg>>)>>
  ELSE IF method = "PUT" THEN <<Request("put", <<url, configData(cfg), cfg>>)>>
  ELSE IF method = "PATCH" THEN <<Request("patch", <<url, configData(cfg), cfg>>)>>
  ELSE IF method = "DELETE" THEN <<Request("delete", <<url, cfg>>)>>
  ELSE <<>>

Pending == [kind |-> "pending", value |-> "-", error |-> "-"]

Returned(value) == [kind |-> "returned", value |-> value, error |-> "-"]

Threw(error) == [kind |-> "threw", value |-> "-", error |-> error]

\* call up to its await: the transport calls made and whether it threw
\* before reaching one.
callSync(ep, opts) ==
  LET d == ep.desc
      data == payloadOf(opts)
      err == validate(d, data)
      cfg == resolveOptions(d, data)
      url == resolveUrl(d, data)
      reqs == dispatch(d.method, url, cfg)
  IN  IF err # "none" THEN [outcome |-> Threw(err), sent |-> <<>>]
      ELSE IF reqs = <<>>
           THEN [outcome |-> Threw("Error:UnsupportedMethod"), sent |-> <<>>]
           ELSE [outcome |-> Pending, sent |-> reqs]

NoResponse == [ok |-> FALSE, data |-> "-", error |-> "-"]

Responses ==
  {[ok |-> TRUE, data |-> b, error |-> "-"] : b \in Bodies}
    \cup {[ok |-> FALSE, data |-> "-", error |-> x] : x \in AxiosErrors}

callResumeUnchecked(response) ==
  IF ~response.ok THEN Threw(response.error) ELSE Returned(response.data)

\* call after its await: a rejected transport promise throws out of call,
\* a response is parsed by the output schema and returned.
callResume(response) ==
  IF ~response.ok THEN Threw(response.error)
  ELSE IF ~OutputAccepts(response.data) THEN Threw("ZodError:output")
       ELSE Returned(response.data)

HookCall(hook, a1, a2, threw) == [hook |-> hook, a1 |-> a1, a2 |-> a2, threw |-> threw]

queryFnSettleWrapsError(c, data, hasS, hasE, sThrows, eThrows) ==
  LET tryHooks == IF c.kind = "returned" /\ hasS
                  THEN <<HookCall("onSuccess", c.value, data, sThrows)>>
                  ELSE <<>>
      caught == IF c.kind = "threw" THEN c.error
                ELSE IF hasS /\ sThrows THEN "HookError:onSuccess"
                     ELSE "none"
  IN  IF caught = "none"
      THEN [hooks |-> tryHooks, result |-> Returned(c.value)]
      ELSE [hooks |-> IF hasE
                      THEN Append(tryHooks, HookCall("onError", caught, data, eThrows))
                      ELSE tryHooks,
            result |-> IF hasE /\ eThrows THEN Threw("HookError:onError")
                       ELSE Threw("Error:QueryFailed")]

\* queryFn once call has settled with c: the try block (onSuccess, return)
\* and the catch block (onError, rethrow).  sThrows and eThrows say whether
\* the caller's hooks throw when invoked.
queryFnSettle(c, data, hasS, hasE, sThrows, eThrows) ==
  LET tryHooks == IF c.kind = "returned" /\ hasS
                  THEN <<HookCall("onSuccess", c.value, data, sThrows)>>
                  ELSE <<>>
      caught == IF c.kind = "threw" THEN c.error
                ELSE IF hasS /\ sThrows THEN "HookError:onSuccess"
                     ELSE "none"
  IN  IF caught = "none"
      THEN [hooks |-> tryHooks, result |-> Returned(c.value)]
      ELSE [hooks |-> IF hasE
                      THEN Append(tryHooks, HookCall("onError", caught, data, eThrows))
                      ELSE tryHooks,
            result |-> IF hasE /\ eThrows THEN Threw("HookError:onError")
                       ELSE Threw(caught)]

\* call itself and mutationFn hand on what call produced.
settle(via, c, data, hasS, hasE, sThrows, eThrows) ==
  IF via = "queryFn" THEN queryFnSettle(c, data, hasS, hasE, sThrows, eThrows)
  ELSE [hooks |-> <<>>, result |-> c]

---------------------------------------------------------------------------
(* Keys and option adapters.                                               *)

queryKeySharedId(ep, data) ==
  IF variant = 1 THEN <<"api-call", "query", 0, data>>
  ELSE IF Truthy(data) THEN <<"api-call", "query", 0, data>>
       ELSE <<"api-call", "query", 0>>

\* queryKey: the first class always appends its argument, the second only
\* when the argument is truthy.
queryKey(ep, data) ==
  IF variant = 1 THEN <<"api-call", "query", ep.uuid, data>>
  ELSE IF Truthy(data) THEN <<"api-call", "query", ep.uuid, data>>
       ELSE <<"api-call", "query", ep.uuid>>

mutationKeyWithPayload(ep) == <<"api-call", "mutation", ep.uuid, inv.arg>>

mutationKey(ep) == <<"api-call", "mutation", ep.uuid>>

\* An object literal as a function from its own keys; {...a, ...b}.
Spread(a, b) ==
  [k \in DOMAIN a \cup DOMAIN b |-> IF k \in DOMAIN b THEN b[k] ELSE a[k]]

\* const { data, ...options } = opts ?? {}
Rest(opts) == [k \in DOMAIN opts \ {"data"} |-> opts[k]]

DataOf(opts) == IF "data" \in DOMAIN opts THEN opts["data"] ELSE Undefined

\* The functions createEndpoint generates, told apart from a caller's by
\* who made them and what they close over.
GeneratedFn(name, ep, data) == [fn |-> name, by |-> "createEndpoint", uuid |-> ep.uuid, data |-> data]

CallerFn(name) == [fn |-> name, by |-> "caller", uuid |-> 0, data |-> Undefined]

queryOptionsGeneratedLast(ep, opts) ==
  Spread(Rest(opts),
         [queryFn |-> GeneratedFn("queryFn", ep, DataOf(opts)),
          queryKey |-> queryKey(ep, DataOf(opts))])

\* queryOptions: { queryFn, queryKey: queryKey(data), ...options }
queryOptions(ep, opts) ==
  Spread([queryFn |-> GeneratedFn("queryFn", ep, DataOf(opts)),
          queryKey |-> queryKey(ep, DataOf(opts))],
         Rest(opts))

\* mutationOptions: { mutationFn, mutationKey: mutationKey(), ...options }
mutationOptions(ep, opts) ==
  Spread([mutationFn |-> GeneratedFn("mutationFn", ep, Undefined),
          mutationKey |-> mutationKey(ep)],
         opts)

\* What a caller may put in opts besides data.
CallerValue(k) ==
  CASE k = "queryKey" -> <<"custom-key">>
    [] k = "mutationKey" -> <<"custom-key">>
    [] k = "queryFn" -> CallerFn("queryFn")
    [] k = "mutationFn" -> CallerFn("mutationFn")
    [] OTHER -> <<"caller", k>>

QueryOptKeys == {"queryKey", "queryFn", "staleTime"}

MutationOptKeys == {"mutationKey", "mutationFn", "retry"}

\* opts ?? {} with the keys ks set by the caller; data is set when the
\* payload is not undefined.
QueryOpts(ks, data) ==
  [k \in ks \cup (IF data = Undefined THEN {} ELSE {"data"}) |->
     IF k = "data" THEN data ELSE CallerValue(k)]

MutationOpts(ks) == [k \in ks |-> CallerValue(k)]

---------------------------------------------------------------------------
(* State.  endpoints holds the endpoints built so far; inv the latest      *)
(* invocation of call, queryFn or mutationFn; obs the latest result of a   *)
(* key or option function.                                                 *)

Idle ==
  [pc |-> "idle", e |-> 0, via |-> "-", arg |-> Undefined,
   hasOnSuccess |-> FALSE, hasOnError |-> FALSE,
   sent |-> <<>>, response |-> NoResponse, call |-> Pending,
   hooks |-> <<>>, result |-> Pending]

NoObs == [op |-> "none", e |-> 0, arg |-> Undefined, result |-> <<>>]

Built == DOMAIN endpoints

\* The payloads queryKey's parameter type admits: the input type when an
\* input schema is declared, nothing otherwise.
KeyPayloads(d) ==
  IF d.inputSchema = "none" THEN {Undefined} ELSE {Prim(t) : t \in PrimTags}

\* new BaseApiClient(axios).createEndpoint(d)
CreateEndpoint(d) ==
  /\ Len(endpoints) < MaxEndpoints
  /\ \E u \in UUIDs \ {endpoints[e].uuid : e \in Built} :
       endpoints' = Append(endpoints, createEndpoint(d, u))
  /\ UNCHANGED <<variant, inv, obs>>

\* An invocation from its start to call's await, or to its end when call
\* throws before reaching the transport.
Start(e, via, arg, hasS, hasE, sThrows, eThrows) ==
  /\ inv.pc \in {"idle", "done"}
  /\ LET s == callSync(endpoints[e], arg)
         f == settle(via, s.outcome, arg, hasS, hasE, sThrows, eThrows)
     IN  inv' = [pc |-> IF s.outcome.kind = "pending" THEN "awaiting" ELSE "done",
                 e |-> e, via |-> via, arg |-> arg,
                 hasOnSuccess |-> hasS, hasOnError |-> hasE,
                 sent |-> s.sent, response |-> NoResponse, call |-> s.outcome,
                 hooks |-> IF s.outcome.kind = "pending" THEN <<>> ELSE f.hooks,
                 result |-> IF s.outcome.kind = "pending" THEN Pending ELSE f.result]
  /\ UNCHANGED <<variant, endpoints, obs>>

\* endpoint(payload)
Call(e, arg) == Start(e, "call", arg, FALSE, FALSE, FALSE, FALSE)

\* endpoint.queryOptions({ data, onSuccess, onError }).queryFn()
QueryFn(e, arg, hasS, hasE, eThrows) == Start(e, "queryFn", arg, hasS, hasE, FALSE, eThrows)

\* endpoint.mutationOptions().mutationFn(payload)
MutationFn(e, arg) == Start(e, "mutationFn", arg, FALSE, FALSE, FALSE, FALSE)

\* The transport promise settles and the invocation runs to its end.
TransportSettles(response, sThrows, eThrows) ==
  /\ inv.pc = "awaiting"
  /\ LET c == callResume(response)
         f == settle(inv.via, c, inv.arg, inv.hasOnSuccess, inv.hasOnError, sThrows, eThrows)
     IN  inv' = [inv EXCEPT !.pc = "done", !.response = response, !.call = c,
                            !.hooks = f.hooks, !.result = f.result]
  /\ UNCHANGED <<variant, endpoints, obs>>

\* endpoint.queryKey(payload)
QueryKey(e, data) ==
  /\ obs' = [op |-> "queryKey", e |-> e, arg |-> data, result |-> queryKey(endpoints[e], data)]
  /\ UNCHANGED <<variant, endpoints, inv>>

\* endpoint.mutationKey()
MutationKey(e) ==
  /\ obs' = [op |-> "mutationKey", e |-> e, arg |-> Undefined, result |-> mutationKey(endpoints[e])]
  /\ UNCHANGED <<variant, endpoints, inv>>

\* endpoint.queryOptions(opts)
QueryOptions(e, opts) ==
  /\ obs' = [op |-> "queryOptions", e |-> e, arg |-> opts, result |-> queryOptions(endpoints[e], opts)]
  /\ UNCHANGED <<variant, endpoints, inv>>

\* endpoint.mutationOptions(opts)
MutationOptions(e, opts) ==
  /\ obs' = [op |-> "mutationOptions", e |-> e, arg |-> opts, result |-> mutationOptions(endpoints[e], opts)]
  /\ UNCHANGED <<variant, endpoints, inv>>

---------------------------------------------------------------------------
(* Spec: the lifetime of one built endpoint, for every descriptor.         *)

Init ==
  /\ variant \in {1, 2}
  /\ \E d \in Descriptors(variant), u \in UUIDs : endpoints = <<createEndpoint(d, u)>>
  /\ inv = Idle
  /\ obs = NoObs

Next ==
  \/ \E e \in Built : \E arg \in CallPayloads(endpoints[e].desc) : Call(e, arg)
  \/ \E e \in Built : \E arg \in CallPayloads(endpoints[e].desc), hasS, hasE \in BOOLEAN :
       \E eThrows \in {FALSE, hasE} : QueryFn(e, arg, hasS, hasE, eThrows)
  \/ \E e \in Built : \E arg \in CallPayloads(endpoints[e].desc) : MutationFn(e, arg)
  \/ \E response \in Responses :
       \E sThrows \in {FALSE, inv.hasOnSuccess}, eThrows \in {FALSE, inv.hasOnError} :
         TransportSettles(response, sThrows, eThrows)
  \/ \E e \in Built : MutationKey(e)

Spec == Init /\ [][Next]_vars

(* SpecBuild: a client building endpoints and deriving keys and option     *)
(* objects from them.                                                      *)

InitBuild ==
  /\ variant \in {1, 2}
  /\ endpoints = <<>>
  /\ inv = Idle
  /\ obs = NoObs

NextBuild ==
  \/ \E d \in BuildDescriptors(variant) : CreateEndpoint(d)
  \/ \E e \in Built : \E data \in KeyPayloads(endpoints[e].desc) : QueryKey(e, data)
  \/ \E e \in Built : MutationKey(e)
  \/ \E e \in Built : \E ks \in SUBSET QueryOptKeys, data \in CallPayloads(endpoints[e].desc) :
       QueryOptions(e, QueryOpts(ks, data))
  \/ \E e \in Built, ks \in SUBSET MutationOptKeys : MutationOptions(e, MutationOpts(ks))

SpecBuild == InitBuild /\ [][NextBuild]_vars

---------------------------------------------------------------------------
(* Properties.                                                             *)

Started == inv.pc # "idle"

Done == inv.pc = "done"

InvDesc == endpoints[inv.e].desc

\* The input (in the first class, the whole payload) fails the declared
\* input schema.
InputFails ==
  /\ InvDesc.inputSchema # "none"
  /\ ~Accepts(InvDesc.inputSchema,
              IF variant = 1 THEN inv.arg
              ELSE IF Nullish(inv.arg) THEN Undefined ELSE Prim(inv.arg.input))

VariablesFail ==
  /\ variant = 2
  /\ InvDesc.variablesSchema # "none"
  /\ ~Accepts(InvDesc.variablesSchema,
              IF Nullish(inv.arg) THEN Undefined ELSE Prim(inv.arg.variables))

\* C1: an invocation of call, queryFn or mutationFn whose input (or
\* variables) fails its declared schema ends with call throwing a validation
\* error, and no transport method is invoked for it.
C1_InvalidPayloadNeverReachesTransport ==
  (Started /\ (InputFails \/ VariablesFail)) =>
    /\ Done
    /\ inv.sent = <<>>
    /\ inv.call.kind = "threw"
    /\ inv.call.error = (IF InputFails THEN "ZodError:input" ELSE "ZodError:variables")
    /\ (inv.via # "queryFn" => inv.result = inv.call)

C1_Witness ==
  /\ Started /\ InputFails
  /\ inv.via = "mutationFn"
  /\ InvDesc.method = "POST"

OutputValidated == inv.response.ok /\ OutputAccepts(inv.response.data)

\* C2: call, queryFn and mutationFn return, and onSuccess is invoked, only
\* with the body of a response that passed the output schema; a response
\* whose body the schema rejects makes call throw a validation error
\* although the transport call succeeded.
C2_OutputValidatedBeforeHandOver ==
  /\ inv.call.kind = "returned" => (OutputValidated /\ inv.call.value = inv.response.data)
  /\ inv.result.kind = "returned" => (OutputValidated /\ inv.result.value = inv.response.data)
  /\ \A i \in DOMAIN inv.hooks :
       inv.hooks[i].hook = "onSuccess" => (OutputValidated /\ inv.hooks[i].a1 = inv.response.data)
  /\ (Done /\ inv.response.ok /\ ~OutputAccepts(inv.response.data)) =>
       (inv.call = Threw("ZodError:output") /\ Len(inv.sent) = 1)

C2_Witness ==
  /\ Done /\ inv.via = "queryFn" /\ inv.hasOnSuccess
  /\ inv.response.ok /\ ~OutputAccepts(inv.response.data)
  /\ inv.call = Threw("ZodError:output")

Verb(method) ==
  CASE method = "GET" -> "get" [] method = "POST" -> "post" [] method = "PUT" -> "put"
    [] method = "PATCH" -> "patch" [] method = "DELETE" -> "delete" [] OTHER -> "-"

\* The one transport call the claim expects of an invocation.
ExpectedRequest ==
  LET data == IF variant = 2 /\ Nullish(inv.arg) THEN EmptyObject ELSE inv.arg
      url == IF InvDesc.pathFn THEN [path |-> "fn", of |-> data]
             ELSE [path |-> "literal", of |-> Undefined]
      options == IF InvDesc.hasOpts THEN [defined |-> TRUE, data |-> data]
                 ELSE [defined |-> FALSE, data |-> Undefined]
      body == IF InvDesc.hasOpts THEN data ELSE Undefined
  IN  IF InvDesc.method \in {"GET", "DELETE"}
      THEN Request(Verb(InvDesc.method), <<url, options>>)
      ELSE Request(Verb(InvDesc.method), <<url, body, options>>)

\* C7: an invocation whose payload passes validation invokes exactly one
\* transport method once, the descriptor's, as (url, options) for GET and
\* DELETE and as (url, options.data, options) for POST, PUT and PATCH.
C7_OneTransportCallInMethodShape ==
  (Started /\ InvDesc.method \in Methods /\ ~InputFails /\ ~VariablesFail) =>
    inv.sent = <<ExpectedRequest>>

C7_Witness ==
  /\ Done /\ InvDesc.method = "POST" /\ InvDesc.hasOpts /\ InvDesc.pathFn
  /\ Len(inv.sent) = 1
  /\ inv.sent[1].verb = "post"
  /\ Len(inv.sent[1].args) = 3
  /\ inv.sent[1].args[2] = inv.arg
  /\ inv.arg # Undefined

\* C8: when the call inside queryFn fails and an onError hook is supplied,
\* the hook is invoked exactly once, with that error and the original
\* payload, and unless the hook throws queryFn rejects with that same error;
\* a transport error reaches the caller of call and of mutationFn unchanged,
\* and the transport is invoked at most once per invocation.
C8_ErrorsPropagateUnchanged ==
  /\ (Done /\ inv.via = "queryFn" /\ inv.call.kind = "threw" /\ inv.hasOnError) =>
       /\ Len(inv.hooks) = 1
       /\ inv.hooks[1].hook = "onError"
       /\ inv.hooks[1].a1 = inv.call.error
       /\ inv.hooks[1].a2 = inv.arg
       /\ ~inv.hooks[1].threw => inv.result = Threw(inv.call.error)
  /\ (Done /\ inv.via \in {"call", "mutationFn"} /\ Len(inv.sent) = 1 /\ ~inv.response.ok) =>
       inv.result = Threw(inv.response.error)
  /\ Len(inv.sent) <= 1

C8_Witness ==
  /\ Done /\ inv.via = "queryFn" /\ inv.hasOnError
  /\ inv.call.kind = "threw" /\ inv.call.error \in AxiosErrors
  /\ Len(inv.hooks) = 1 /\ ~inv.hooks[1].threw
  /\ inv.arg # Undefined

\* C9: every invocation of call on an endpoint whose method is none of the
\* five verbs raises an error, at its first call already, and no transport
\* method is invoked for it.
C9_UnsupportedMethodFails ==
  (Started /\ InvDesc.method \notin Methods) =>
    /\ Done
    /\ inv.call.kind = "threw"
    /\ inv.result.kind = "threw"
    /\ inv.sent = <<>>

C9_Witness ==
  /\ Done /\ InvDesc.method \notin Methods
  /\ inv.call = Threw("Error:UnsupportedMethod")
  /\ inv.via = "call"

\* C10: in an execution of queryFn at most one of the hooks onSuccess and
\* onError is invoked, onSuccess only when call succeeded and onError only
\* when call failed, also when onSuccess itself throws.
C10_AtMostOneHook ==
  (Done /\ inv.via = "queryFn") =>
    /\ Len(inv.hooks) <= 1
    /\ \A i \in DOMAIN inv.hooks :
         /\ inv.hooks[i].hook = "onSuccess" => inv.call.kind = "returned"
         /\ inv.hooks[i].hook = "onError" => inv.call.kind = "threw"

\* C4: mutationKey() is ["api-call", "mutation", identity] at every point of
\* the endpoint's lifetime, whatever calls were made before, and the
\* identity in the endpoint's keys is the one it was built with.
C4_MutationKeyStable ==
  [][\A e \in Built :
       /\ e \in DOMAIN endpoints'
       /\ endpoints'[e].uuid = endpoints[e].uuid
       /\ mutationKey(endpoints[e])' = <<"api-call", "mutation", endpoints[e].uuid>>
       /\ \A t \in PrimTags : queryKey(endpoints[e], Prim(t))'[3] = endpoints[e].uuid
       /\ (obs'.op = "mutationKey" /\ obs'.e = e) =>
            obs'.result = <<"api-call", "mutation", endpoints[e].uuid>>]_vars

C4_Witness ==
  /\ obs.op = "mutationKey"
  /\ Done /\ inv.arg # Undefined /\ inv.result.kind = "returned"

KeyArguments ==
  {Prim(t) : t \in PrimTags} \cup {Obj(i, v) : i \in CallTags, v \in CallTags}

KeysOf(e) ==
  {queryKey(endpoints[e], p) : p \in KeyArguments} \cup {mutationKey(endpoints[e])}

\* C5: two endpoints built by separate createEndpoint invocations, also from
\* identical descriptors, have different identities, and no key of one
\* equals a key of the other, for any payloads.
C5_KeysOfDistinctEndpointsDiffer ==
  \A e1, e2 \in Built :
    e1 # e2 =>
      /\ endpoints[e1].uuid # endpoints[e2].uuid
      /\ \A k1 \in KeysOf(e1), k2 \in KeysOf(e2) : k1 # k2
      /\ (obs.op \in {"queryKey", "mutationKey"} /\ obs.e = e1) => obs.result \notin KeysOf(e2)

C5_Witness ==
  /\ Len(endpoints) >= 2
  /\ endpoints[1].desc = endpoints[2].desc
  /\ obs.op = "queryKey" /\ obs.e = 2 /\ Truthy(obs.arg)

ObsEndpoint == endpoints[obs.e]

\* C6 as claimed: the returned object carries the generated key and the
\* generated function, whatever opts holds, and every other field of opts
\* unchanged.
C6_GeneratedNeverReplaced ==
  /\ obs.op = "queryOptions" =>
       /\ obs.result["queryKey"] = queryKey(ObsEndpoint, DataOf(obs.arg))
       /\ obs.result["queryFn"] = GeneratedFn("queryFn", ObsEndpoint, DataOf(obs.arg))
       /\ \A k \in DOMAIN obs.arg \ {"data", "queryKey", "queryFn"} :
            k \in DOMAIN obs.result /\ obs.result[k] = obs.arg[k]
  /\ obs.op = "mutationOptions" =>
       /\ obs.result["mutationKey"] = mutationKey(ObsEndpoint)
       /\ obs.result["mutationFn"] = GeneratedFn("mutationFn", ObsEndpoint, Undefined)
       /\ \A k \in DOMAIN obs.arg \ {"mutationKey", "mutationFn"} :
            k \in DOMAIN obs.result /\ obs.result[k] = obs.arg[k]

\* C6, amended: the returned object is the generated pair overlaid by the
\* caller's fields.  Every field of opts other than the consumed data is
\* carried unchanged, a key or function among them replacing the generated
\* one; the generated key and function are carried where opts holds none.
C6_CallerFieldsOverlayGenerated ==
  /\ obs.op = "queryOptions" =>
       /\ DOMAIN obs.result = {"queryFn", "queryKey"} \cup (DOMAIN obs.arg \ {"data"})
       /\ \A k \in DOMAIN obs.arg \ {"data"} : obs.result[k] = obs.arg[k]
       /\ "queryKey" \notin DOMAIN obs.arg =>
            obs.result["queryKey"] = queryKey(ObsEndpoint, DataOf(obs.arg))
       /\ "queryFn" \notin DOMAIN obs.arg =>
            obs.result["queryFn"] = GeneratedFn("queryFn", ObsEndpoint, DataOf(obs.arg))
  /\ obs.op = "mutationOptions" =>
       /\ DOMAIN obs.result = {"mutationFn", "mutationKey"} \cup DOMAIN obs.arg
       /\ \A k \in DOMAIN obs.arg : obs.result[k] = obs.arg[k]
       /\ "mutationKey" \notin DOMAIN obs.arg =>
            obs.result["mutationKey"] = mutationKey(ObsEndpoint)
       /\ "mutationFn" \notin DOMAIN obs.arg =>
            obs.result["mutationFn"] = GeneratedFn("mutationFn", ObsEndpoint, Undefined)

C6_Witness ==
  /\ obs.op = "queryOptions"
  /\ {"queryKey", "staleTime", "data"} \subseteq DOMAIN obs.arg
  /\ obs.result["queryKey"] = <<"custom-key">>
  /\ obs.result["queryFn"] = GeneratedFn("queryFn", ObsEndpoint, obs.arg["data"])

\* C3: queryKey(payload) begins with "api-call", "query" and the identity,
\* and carries the payload as a fourth segment exactly when the descriptor
\* declares an input or variables schema, for every payload value given
\* (0, "", false and null among them).
C3_PayloadSegmentIffSchemaDeclared ==
  obs.op = "queryKey" =>
    LET d == ObsEndpoint.desc
        declared == d.inputSchema # "none" \/ d.variablesSchema # "none"
    IN  /\ Len(obs.result) >= 3
        /\ SubSeq(obs.result, 1, 3) = <<"api-call", "query", ObsEndpoint.uuid>>
        /\ (declared /\ obs.arg # Undefined) =>
             (Len(obs.result) = 4 /\ obs.result[4] = obs.arg)
        /\ ~declared => Len(obs.result) = 3

====
